---- MODULE Spec2Model ----
(***************************************************************************)
(* Model of tatsu/ngcodegen/objectmodel.py: PythonModelGenerator, which    *)
(* derives a class hierarchy from the rules of a grammar and prints one    *)
(* declaration per class, bases first.                                     *)
(*                                                                         *)
(* A string annotation such as "Foo::Base" is a sequence of tokens         *)
(* <<"Foo", "::", "Base">>; the printed text is a sequence of records, one *)
(* per printed block (the header, then one per class declaration).         *)
(***************************************************************************)
EXTENDS Naturals, Sequences, FiniteSets

\* ------------------------------------------------------------------ bounds

MaxRules == 2
MaxCalls == 2
MaxRuns == 2

\* ------------------------------------------------------------- Python values

None == "<None>"
Sep == "::"

Last(s) == s[Len(s)]
Front(s) == SubSeq(s, 1, Len(s) - 1)

RECURSIVE Reverse(_)
Reverse(s) == IF s = <<>> THEN <<>> ELSE Append(Reverse(Tail(s)), Head(s))

RECURSIVE SeqToSet(_)
SeqToSet(s) == IF s = <<>> THEN {} ELSE {Head(s)} \cup SeqToSet(Tail(s))

\* every order in which a (hash) set can be enumerated
Enumerations(S) ==
    {s \in [1..Cardinality(S) -> S] : \A i, j \in DOMAIN s : i # j => s[i] # s[j]}

\* dict: insertion-ordered sequence of items [k, v]; assignment to an
\* existing key keeps the key's position
DictHas(d, k) == \E i \in DOMAIN d : d[i].k = k
DictGet(d, k) == d[CHOOSE i \in DOMAIN d : d[i].k = k].v
DictPut(d, k, v) ==
    IF DictHas(d, k)
    THEN [i \in DOMAIN d |-> IF d[i].k = k THEN [k |-> k, v |-> v] ELSE d[i]]
    ELSE Append(d, [k |-> k, v |-> v])
DictKeys(d) == [i \in DOMAIN d |-> d[i].k]
DictGetOr(d, k, default) == IF DictHas(d, k) THEN DictGet(d, k) ELSE default

\* str.split('::') on a token sequence
RECURSIVE Join(_)
Join(toks) == IF toks = <<>> THEN "" ELSE Head(toks) \o Join(Tail(toks))

RECURSIVE Split(_)
Split(toks) ==
    IF \A i \in DOMAIN toks : toks[i] # Sep
    THEN <<Join(toks)>>
    ELSE LET i == CHOOSE j \in DOMAIN toks :
                      toks[j] = Sep /\ \A l \in 1..(j - 1) : toks[l] # Sep
         IN <<Join(SubSeq(toks, 1, i - 1))>> \o Split(SubSeq(toks, i + 1, Len(toks)))

\* ------------------------------------------------------------ collaborators

Keywords == {"class", "def", "pass"}
Builtins == {"list", "dict", "type", "object"}
ModelBaseName == "ModelBase"
BaseTypeName == "Node"
BaseTypeModule == "tatsu.objectmodel"

\* tatsu.util.safe_name on identifier-like names: a keyword gets a trailing '_'
SafeName(n) == IF n \in Keywords THEN n \o "_" ELSE n

\* tatsu.util.compress_seq: duplicates dropped, first occurrences kept in order
RECURSIVE CompressSeq(_)
CompressSeq(s) ==
    IF s = <<>> THEN <<>>
    ELSE LET front == CompressSeq(Front(s))
         IN IF Last(s) \in SeqToSet(front) THEN front ELSE Append(front, Last(s))

\* lexicographic order of the identifiers that occur as attribute names
LexOrder == <<"class_", "x", "y">>
LexRank(a) == CHOOSE i \in DOMAIN LexOrder : LexOrder[i] = a

RECURSIVE Sorted(_)
Sorted(S) ==
    IF S = {} THEN <<>>
    ELSE LET m == CHOOSE a \in S : \A b \in S : LexRank(a) <= LexRank(b)
         IN <<m>> \o Sorted(S \ {m})

\* ------------------------------------------------------------------- inputs

StrParam(toks) == [type |-> "str", tokens |-> toks]
IntParam == [type |-> "int", tokens |-> <<>>]

Annotations ==
    { <<"Foo">>, <<"ModelBase">>,
      <<"Foo", Sep, "Base">>, <<"Base", Sep, "Foo">>, <<"Foo", Sep, "Foo">>,
      <<"Foo", Sep, "list">>, <<"list", Sep, "Foo">>, <<"Foo", Sep, "Root">>,
      <<"class", Sep, "Base">>, <<"Shared", Sep, "Root">>,
      <<"Foo", Sep, "Base", Sep, "Root">> }

ParamLists == {<<>>, <<IntParam>>} \cup {<<StrParam(a)>> : a \in Annotations}

Define(n, l) == [name |-> n, list |-> l]
DefinesLists ==
    { <<>>, <<Define("y", FALSE), Define("x", FALSE), Define("y", TRUE), Define("x", FALSE)>> }

RuleNames == <<"foo", "bar", "baz", "qux">>

RuleSeqs(max) ==
    UNION { { [i \in 1..n |-> [name |-> RuleNames[i], params |-> ps[i], defines |-> ds[i]]] :
                ps \in [1..n -> ParamLists], ds \in [1..n -> DefinesLists] } :
            n \in 0..max }

Grammars == {[name |-> "G1", rules |-> rs] : rs \in RuleSeqs(MaxRules)}
ReuseGrammars == {[name |-> n, rules |-> rs] : n \in {"G1", "G2"}, rs \in RuleSeqs(1)}
NoGrammar == [name |-> None, rules |-> <<>>]
CtorNames == {"", "Calc"}

\* ------------------------------------------------------- _base_class_specs

BaseClassSpec(class_name, base) == [class_name |-> class_name, base |-> base]

BaseClassSpecsSkipRoot(rule) ==
    IF rule.params = <<>> \/ rule.params[1].type # "str"
    THEN <<>>
    ELSE LET spec == Split(rule.params[1].tokens)
             class_names == [i \in DOMAIN spec |-> SafeName(spec[i])]
         IN [i \in 1..(Len(class_names) - 1) |->
                BaseClassSpec(class_names[i], class_names[i + 1])]

BaseClassSpecs(rule) ==
    IF rule.params = <<>> \/ rule.params[1].type # "str"
    THEN <<>>
    ELSE LET spec == Split(rule.params[1].tokens)
             base == <<ModelBaseName>>
             class_names == [i \in DOMAIN spec |-> SafeName(spec[i])] \o base
         IN [i \in 1..(Len(class_names) - 1) |->
                BaseClassSpec(class_names[i], class_names[i + 1])]

\* ---------------------------------------------------------- generate_model

RuleIndex(g) ==
    LET RECURSIVE idx(_)
        idx(rs) == IF rs = <<>> THEN <<>>
                   ELSE DictPut(idx(Front(rs)), Last(rs).name, Last(rs))
    IN idx(g.rules)

RuleSpecs(g) ==
    LET RECURSIVE all(_)
        all(rs) == IF rs = <<>> THEN <<>>
                   ELSE DictPut(all(Front(rs)), Last(rs).name, BaseClassSpecs(Last(rs)))
    IN SelectSeq(all(g.rules), LAMBDA it : it.v # <<>>)

\* the specs of every rule, in the order of the nested comprehension
RECURSIVE SpecSeq(_)
SpecSeq(rule_specs) ==
    IF rule_specs = <<>> THEN <<>> ELSE SpecSeq(Front(rule_specs)) \o Last(rule_specs).v

SpecsByName(rule_specs) ==
    LET RECURSIVE put(_)
        put(ss) == IF ss = <<>> THEN <<>>
                   ELSE DictPut(put(Front(ss)), Last(ss).class_name, Last(ss).base)
    IN DictPut(put(SpecSeq(rule_specs)), ModelBaseName, BaseTypeName)

AllSpecsLeafOnly(rule_specs) ==
    {<<rule_specs[i].v[1].class_name, rule_specs[i].v[1].base>> : i \in DOMAIN rule_specs}

AllSpecs(rule_specs) ==
    {<<s.class_name, s.base>> : s \in SeqToSet(SpecSeq(rule_specs))}

NodesNoRoot(specs_by_name) ==
    SelectSeq(Reverse(DictKeys(specs_by_name)), LAMBDA n : n # ModelBaseName)

Nodes(specs_by_name) == Reverse(DictKeys(specs_by_name))

ModelToRuleFirstWins(rule_index, rule_specs) ==
    LET RECURSIVE put(_)
        put(items) ==
            IF items = <<>> THEN <<>>
            ELSE LET d == put(Front(items))
                     it == Last(items)
                 IN IF DictHas(rule_specs, it.k)
                       /\ ~DictHas(d, DictGet(rule_specs, it.k)[1].class_name)
                    THEN DictPut(d, DictGet(rule_specs, it.k)[1].class_name, it.v)
                    ELSE d
    IN put(rule_index)

ModelToRule(rule_index, rule_specs) ==
    LET RECURSIVE put(_)
        put(items) ==
            IF items = <<>> THEN <<>>
            ELSE LET d == put(Front(items))
                     it == Last(items)
                 IN IF DictHas(rule_specs, it.k)
                    THEN DictPut(d, DictGet(rule_specs, it.k)[1].class_name, it.v)
                    ELSE d
    IN put(rule_index)

IsBuiltinNever(model_name) == FALSE

IsBuiltin(model_name) == model_name \in Builtins

\* ----------------------------------------------------------------- printing

Block(kind, name, base, fields, pass) ==
    [kind |-> kind, name |-> name, base |-> base, fields |-> fields, pass |-> pass]

\* HEADER.format(...): the import of the base type and the semantics class
Header(name) == Block("header", name, BaseTypeName, <<BaseTypeModule>>, FALSE)

GenBaseClass(class_name, base) == Block("class", class_name, base, <<>>, TRUE)

ArgumentsUnsorted(rule) ==
    CompressSeq([i \in DOMAIN rule.defines |-> SafeName(rule.defines[i].name)])

Arguments(rule) ==
    LET ds == CompressSeq(rule.defines)
    IN Sorted({SafeName(ds[i].name) : i \in DOMAIN ds})

\* one printed line '{arg}: Any = None'
Field(arg) == [name |-> arg, type |-> "Any", default |-> "None"]

GenRuleClass(rule, specs) ==
    LET spec == specs[1]
        arguments == Arguments(rule)
    IN Block("class", spec.class_name, spec.base,
             [i \in DOMAIN arguments |-> Field(arguments[i])], arguments = <<>>)

\* ------------------------------------------------------------------ topsort

\* tatsu.util.misc.topsort(nodes, edges): Kahn's algorithm over the edges
\* (class, base), the result built back to front so that a base comes first
WithIncoming(order) == {e[2] : e \in order}
Outgoing(order, n) == {e[2] : e \in {x \in order : x[1] = n}}
InitialPending(nodes, order) == SelectSeq(nodes, LAMBDA n : n \notin WithIncoming(order))

\* -------------------------------------------------------------------- state

VARIABLES
    ctor_name,       \* the name given to modelgen / the constructor ('' when omitted)
    self_name,       \* self.name
    buffer,          \* the text printed so far by this generator (IndentPrintMixin)
    pc,              \* idle | topsort | emit | done | raised
    calls,           \* generate_model calls made on this generator
    run,             \* modelgen runs made on this grammar
    grammar,         \* the grammar of the current call
    rule_specs, specs_by_name, all_specs, model_to_rule,
    order, pending, result,     \* topsort's locals
    model_names, idx,           \* the emission loop
    returned,        \* what the last completed call returned
    start,           \* the length of the printed text when the current call began
    prev_returned    \* what the previous modelgen run returned

vars == <<ctor_name, self_name, buffer, pc, calls, run, grammar, rule_specs,
          specs_by_name, all_specs, model_to_rule, order, pending, result,
          model_names, idx, returned, start, prev_returned>>

generator == <<ctor_name, self_name>>
locals == <<grammar, rule_specs, specs_by_name, all_specs, model_to_rule>>
sorting == <<order, pending, result>>

\* PythonModelGenerator.__init__(name): self.name = name or None
Init ==
    /\ ctor_name \in CtorNames
    /\ self_name = (IF ctor_name = "" THEN None ELSE ctor_name)
    /\ buffer = <<>>
    /\ pc = "idle"
    /\ calls = 0
    /\ run = 1
    /\ grammar = NoGrammar
    /\ rule_specs = <<>>
    /\ specs_by_name = <<>>
    /\ all_specs = {}
    /\ model_to_rule = <<>>
    /\ order = {}
    /\ pending = <<>>
    /\ result = <<>>
    /\ model_names = <<>>
    /\ idx = 0
    /\ returned = <<>>
    /\ start = 0
    /\ prev_returned = <<>>

\* generate_model up to the call of topsort, on a generator whose name is
\* name0 and whose printed text is buffer0
Begin(name0, buffer0, g) ==
    LET name1 == IF name0 # None THEN name0 ELSE g.name
        rs == RuleSpecs(g)
        sbn == SpecsByName(rs)
        edges == AllSpecs(rs)
    IN /\ self_name' = name1
       /\ buffer' = Append(buffer0, Header(name1))
       /\ start' = Len(buffer0)
       /\ grammar' = g
       /\ rule_specs' = rs
       /\ specs_by_name' = sbn
       /\ all_specs' = edges
       /\ model_to_rule' = ModelToRule(RuleIndex(g), rs)
       /\ order' = edges
       /\ pending' = InitialPending(Nodes(sbn), edges)
       /\ result' = <<>>
       /\ model_names' = <<>>
       /\ idx' = 0
       /\ pc' = "topsort"

\* the first generate_model call on a fresh generator
Generate ==
    /\ pc = "idle"
    /\ \E g \in Grammars : Begin(self_name, buffer, g)
    /\ calls' = 1
    /\ UNCHANGED <<ctor_name, run, returned, prev_returned>>

\* one iteration of topsort's loop: n = pending.pop(); result.insert(0, n);
\* n's edges are removed and the nodes left without incoming edges are pushed,
\* in the order the set of them is enumerated
TopsortStep ==
    /\ pc = "topsort"
    /\ pending # <<>>
    /\ LET n == Last(pending)
           outgoing == Outgoing(order, n)
           rest == order \ {<<n, m>> : m \in outgoing}
       IN /\ order' = rest
          /\ result' = <<n>> \o result
          /\ \E pushed \in Enumerations(outgoing \ WithIncoming(rest)) :
                pending' = Front(pending) \o pushed
    /\ UNCHANGED <<generator, buffer, pc, calls, run, locals, model_names, idx,
                   returned, start, prev_returned>>

\* topsort returns; line 90
TopsortReturn ==
    /\ pc = "topsort"
    /\ pending = <<>>
    /\ order = {}
    /\ model_names' = result
    /\ idx' = 1
    /\ pc' = "emit"
    /\ UNCHANGED <<generator, buffer, calls, run, locals, sorting, returned,
                   start, prev_returned>>

\* topsort raises ValueError: edges are left, so the graph has a cycle
TopsortRaise ==
    /\ pc = "topsort"
    /\ pending = <<>>
    /\ order # {}
    /\ pc' = "raised"
    /\ UNCHANGED <<generator, buffer, calls, run, locals, sorting, model_names,
                   idx, returned, start, prev_returned>>

\* the loop of lines 98-104, one iteration per action
SkipBuiltin ==
    /\ pc = "emit"
    /\ idx <= Len(model_names)
    /\ IsBuiltin(model_names[idx])
    /\ idx' = idx + 1
    /\ UNCHANGED <<generator, buffer, pc, calls, run, locals, sorting,
                   model_names, returned, start, prev_returned>>

EmitRuleClass ==
    /\ pc = "emit"
    /\ idx <= Len(model_names)
    /\ ~IsBuiltin(model_names[idx])
    /\ DictHas(model_to_rule, model_names[idx])
    /\ LET rule == DictGet(model_to_rule, model_names[idx])
       IN buffer' = Append(buffer, GenRuleClass(rule, DictGet(rule_specs, rule.name)))
    /\ idx' = idx + 1
    /\ UNCHANGED <<generator, pc, calls, run, locals, sorting, model_names,
                   returned, start, prev_returned>>

EmitBaseClass ==
    /\ pc = "emit"
    /\ idx <= Len(model_names)
    /\ ~IsBuiltin(model_names[idx])
    /\ ~DictHas(model_to_rule, model_names[idx])
    /\ buffer' = Append(buffer, GenBaseClass(model_names[idx],
                                     DictGetOr(specs_by_name, model_names[idx], None)))
    /\ idx' = idx + 1
    /\ UNCHANGED <<generator, pc, calls, run, locals, sorting, model_names,
                   returned, start, prev_returned>>

\* return self.printed_text()
Return ==
    /\ pc = "emit"
    /\ idx > Len(model_names)
    /\ returned' = buffer
    /\ pc' = "done"
    /\ UNCHANGED <<generator, buffer, calls, run, locals, sorting, model_names,
                   idx, start, prev_returned>>

\* a further generate_model call on the same generator, for another grammar
GenerateAgain ==
    /\ pc = "done"
    /\ calls < MaxCalls
    /\ \E g \in ReuseGrammars : g.name # grammar.name /\ Begin(self_name, buffer, g)
    /\ calls' = calls + 1
    /\ UNCHANGED <<ctor_name, run, returned, prev_returned>>

GenerateReuse ==
    /\ pc = "idle"
    /\ \E g \in ReuseGrammars : Begin(self_name, buffer, g)
    /\ calls' = 1
    /\ UNCHANGED <<ctor_name, run, returned, prev_returned>>

\* modelgen(grammar, name) once more on the identical grammar: a new generator
ModelgenAgain ==
    /\ pc = "done"
    /\ run < MaxRuns
    /\ Begin(IF ctor_name = "" THEN None ELSE ctor_name, <<>>, grammar)
    /\ calls' = 1
    /\ run' = run + 1
    /\ prev_returned' = returned
    /\ UNCHANGED <<ctor_name, returned>>

Run == TopsortStep \/ TopsortReturn \/ TopsortRaise \/ SkipBuiltin
         \/ EmitRuleClass \/ EmitBaseClass \/ Return

Next == Generate \/ Run
Spec == Init /\ [][Next]_vars

NextTwice == Generate \/ Run \/ ModelgenAgain
SpecTwice == Init /\ [][NextTwice]_vars

NextReuse == GenerateReuse \/ Run \/ GenerateAgain
SpecReuse == Init /\ [][NextReuse]_vars

\* ------------------------------------------------- what the claims speak of

\* the class declarations of a text, in order
Decls(text) == SelectSeq(text, LAMBDA b : b.kind = "class")
DeclaredNames(text) == {b.name : b \in SeqToSet(Decls(text))}

\* the names a rule's annotation declares, sanitized, in order
Annotated(rule) == rule.params # <<>> /\ rule.params[1].type = "str"
Declared(rule) ==
    LET names == SelectSeq(rule.params[1].tokens, LAMBDA t : t # Sep)
    IN [i \in DOMAIN names |-> SafeName(names[i])]

\* the chain a rule declares: (class, base) for consecutive names, the last
\* name based on the root base name
ChainEdges(rule) ==
    LET names == Declared(rule)
    IN {<<names[k], IF k < Len(names) THEN names[k + 1] ELSE ModelBaseName>> :
            k \in DOMAIN names}
GrammarEdges ==
    UNION {ChainEdges(grammar.rules[i]) :
             i \in {j \in DOMAIN grammar.rules : Annotated(grammar.rules[j])}}
Endpoints == {e[1] : e \in GrammarEdges} \cup {e[2] : e \in GrammarEdges}

\* the rules whose own (leaf) class is name
LeafRules(name) ==
    {i \in DOMAIN grammar.rules :
        Annotated(grammar.rules[i]) /\ Declared(grammar.rules[i])[1] = name}
LastLeafRule(name) ==
    grammar.rules[CHOOSE i \in LeafRules(name) : \A j \in LeafRules(name) : j <= i]
LeafBase(rule) ==
    IF Len(Declared(rule)) > 1 THEN Declared(rule)[2] ELSE ModelBaseName

XYFields == <<Field("x"), Field("y")>>

\* ------------------------------------------------------------------- claims

\* C1: in the returned text, for every ClassSpec (class, base) of the grammar
\* whose two names are both declared, the declaration of the base comes
\* before the declaration of the class.
C1_BaseBeforeClass ==
    pc = "done" =>
        \A e \in GrammarEdges : \A i, j \in DOMAIN returned :
            (/\ returned[i].kind = "class" /\ returned[i].name = e[1]
             /\ returned[j].kind = "class" /\ returned[j].name = e[2]) => j < i

C1_Witness ==
    /\ pc = "done"
    /\ Cardinality(GrammarEdges) >= 4
    /\ Endpoints \subseteq DeclaredNames(returned)

\* C2 (as stated): the declared names are exactly the endpoints of the
\* ClassSpecs of the annotated rules, minus the built-in names, each declared
\* exactly once.
C2_DeclaredAreEndpoints ==
    pc = "done" =>
        /\ DeclaredNames(returned) = Endpoints \ Builtins
        /\ Len(Decls(returned)) = Cardinality(DeclaredNames(returned))

\* C2 (amended): the declared names are exactly the endpoints of the
\* ClassSpecs of the annotated rules together with the root base name
\* ModelBase (declared even when no rule is annotated), minus the built-in
\* names, each declared exactly once.
C2_DeclaredAreEndpointsAndRoot ==
    pc = "done" =>
        /\ DeclaredNames(returned) = (Endpoints \cup {ModelBaseName}) \ Builtins
        /\ Len(Decls(returned)) = Cardinality(DeclaredNames(returned))

C2_Witness ==
    /\ pc = "done"
    /\ Len(grammar.rules) = 2
    /\ Annotated(grammar.rules[1])
    /\ grammar.rules[1].params = grammar.rules[2].params
    /\ Endpoints \cap Builtins # {}
    /\ Len(Decls(returned)) = 2

\* C3: _base_class_specs of a rule annotated with N >= 1 names returns N
\* ClassSpecs, the k-th pairing the k-th sanitized name with the (k+1)-th and
\* the last pairing the last name with ModelBase; of any other rule it
\* returns the empty list.
C3_ChainOfSpecs ==
    pc # "idle" =>
        \A i \in DOMAIN grammar.rules :
            LET rule == grammar.rules[i]
                specs == BaseClassSpecs(rule)
            IN IF Annotated(rule)
               THEN LET names == Declared(rule)
                        N == Len(names)
                    IN /\ N >= 1
                       /\ Len(specs) = N
                       /\ \A k \in 1..N :
                            /\ specs[k].class_name = names[k]
                            /\ specs[k].base =
                                 (IF k < N THEN names[k + 1] ELSE ModelBaseName)
                       /\ DictHas(rule_specs, rule.name)
                       /\ DictGet(rule_specs, rule.name) = specs
               ELSE specs = <<>> /\ ~DictHas(rule_specs, rule.name)

C3_Witness ==
    /\ pc # "idle"
    /\ Len(grammar.rules) = 2
    /\ ~Annotated(grammar.rules[1])
    /\ Annotated(grammar.rules[2])
    /\ Len(DictGet(rule_specs, grammar.rules[2].name)) = 3

FooBaseGrammar ==
    /\ Len(grammar.rules) = 1
    /\ grammar.rules[1].name = "foo"
    /\ grammar.rules[1].params = <<StrParam(<<"Foo", Sep, "Base">>)>>
    /\ {d.name : d \in SeqToSet(grammar.rules[1].defines)} = {"x", "y"}

\* C4 (as stated): for the single rule foo annotated "Foo::Base" and defining
\* {x, y}, the text holds an empty class Base deriving directly from Node,
\* then a class Foo deriving from Base with the fields x and y defaulting to None.
C4_BaseDerivesFromNode ==
    (pc = "done" /\ FooBaseGrammar) =>
        \E i, j \in DOMAIN returned :
            /\ i < j
            /\ returned[i] = Block("class", "Base", BaseTypeName, <<>>, TRUE)
            /\ returned[j] = Block("class", "Foo", "Base", XYFields, FALSE)

\* C4 (amended): for that grammar the declarations are, in order, an empty
\* class ModelBase deriving from Node, an empty class Base deriving from
\* ModelBase, and a class Foo deriving from Base with the fields x and y
\* defaulting to None.
C4_BaseDerivesFromModelBase ==
    (pc = "done" /\ FooBaseGrammar) =>
        Decls(returned) =
            << Block("class", ModelBaseName, BaseTypeName, <<>>, TRUE),
               Block("class", "Base", ModelBaseName, <<>>, TRUE),
               Block("class", "Foo", "Base", XYFields, FALSE) >>

C4_Witness == pc = "done" /\ FooBaseGrammar /\ Len(returned) = 4

\* C5 (as stated): a built-in name among the endpoints is neither declared
\* nor named as the base of any declaration of the returned text.
C5_BuiltinAbsent ==
    pc = "done" =>
        \A n \in Endpoints \cap Builtins : \A i \in DOMAIN returned :
            returned[i].kind = "class" =>
                returned[i].name # n /\ returned[i].base # n

\* C5 (amended): a built-in name among the endpoints is never declared in the
\* returned text (it may still be named as the base of a class deriving from it).
C5_BuiltinNotDeclared ==
    pc = "done" =>
        \A n \in Endpoints \cap Builtins : \A i \in DOMAIN returned :
            returned[i].kind = "class" => returned[i].name # n

C5_Witness ==
    /\ pc = "done"
    /\ \E i \in DOMAIN returned :
          returned[i].kind = "class" /\ returned[i].base \in Endpoints \cap Builtins

SharedRootGrammar ==
    /\ Len(grammar.rules) = 2
    /\ \A i \in 1..2 : grammar.rules[i].params = <<StrParam(<<"Shared", Sep, "Root">>)>>
    /\ \E i \in 1..2 : grammar.rules[i].defines # <<>> /\ grammar.rules[3 - i].defines = <<>>

\* C6: with two rules both annotated "Shared::Root", one of them defining
\* attributes, in either order, Shared is declared once and carries the
\* attributes of the rule that defines them.
C6_SharedCarriesAttributes ==
    (pc = "done" /\ SharedRootGrammar) =>
        /\ Cardinality({i \in DOMAIN returned :
                returned[i].kind = "class" /\ returned[i].name = "Shared"}) = 1
        /\ \A i \in DOMAIN returned :
                (returned[i].kind = "class" /\ returned[i].name = "Shared") =>
                    returned[i].fields = XYFields /\ ~returned[i].pass

\* C7: a second modelgen run on the identical grammar with the identical
\* options returns the text the first run returned, however the edge set is
\* enumerated.
C7_SameTextTwice ==
    (pc = "done" /\ run = 2) => returned = prev_returned

\* C8: on a generator constructed without a name, the text a call returns
\* names the semantics class after that call's grammar and holds no
\* declaration printed by an earlier call.
C8_CallsIndependent ==
    (pc = "done" /\ ctor_name = "") =>
        /\ returned[start + 1].kind = "header"
        /\ returned[start + 1].name = grammar.name
        /\ \A i \in 1..start : returned[i].kind # "class"

\* C9 (as stated): every declaration has a base, its name has an entry in
\* the base map, and the base in its header is the base the map records.
C9_HeaderBaseIsMapBase ==
    pc = "done" =>
        \A i \in DOMAIN returned :
            returned[i].kind = "class" =>
                /\ returned[i].base # None
                /\ DictHas(specs_by_name, returned[i].name)
                /\ returned[i].base = DictGet(specs_by_name, returned[i].name)

\* C9 (amended): every declaration has a base and its name has an entry in
\* the base map; the header of a synthetic class names the base the map
\* records; the header of a rule's leaf class names the base that the chain
\* of the last rule with that leaf class gives it, which is the base the map
\* records whenever every ClassSpec of that class names the same base.
C9_HeaderBaseIsChainBase ==
    pc = "done" =>
        \A i \in DOMAIN returned :
            returned[i].kind = "class" =>
                LET name == returned[i].name
                    bases == {e[2] : e \in {x \in GrammarEdges : x[1] = name}}
                IN /\ returned[i].base # None
                   /\ DictHas(specs_by_name, name)
                   /\ IF LeafRules(name) # {}
                      THEN returned[i].base = LeafBase(LastLeafRule(name))
                      ELSE returned[i].base = DictGet(specs_by_name, name)
                   /\ Cardinality(bases) <= 1 =>
                        returned[i].base = DictGet(specs_by_name, name)

C9_Witness ==
    /\ pc = "done"
    /\ \E i \in DOMAIN returned :
          /\ returned[i].kind = "class"
          /\ returned[i].base # DictGet(specs_by_name, returned[i].name)
          /\ Cardinality(LeafRules(returned[i].name)) = 1

\* C10: whatever the annotations, generate_model raises nothing and returns
\* the full text: every class name of the annotated rules that is no
\* built-in is declared.
C10_NeverRaises ==
    /\ pc # "raised"
    /\ pc = "done" => (Endpoints \ Builtins) \subseteq DeclaredNames(returned)

====
